---- MODULE Spec2Model ----
(***************************************************************************)
(* Model of backend/llm/qa_headless.py: HeadlessQA.generate_answer and     *)
(* HeadlessQA.generate_stream, the background completion task wrapped by   *)
(* wrap_done, the token intermediary (queue + done event) and the history  *)
(* repository the two generators write to; and of the two handlers of     *)
(* backend/routes/chat_routes.py that construct and invoke the generator.  *)
(*                                                                         *)
(* Text is a sequence of characters, a token is a non-empty text, and      *)
(* "".join(tokens) is the concatenation of the token texts.                *)
(***************************************************************************)
EXTENDS Integers, Sequences, FiniteSets, TLC

\* ---- bounds of the model ----
\* tokens the completion client streams in one run of the model, all
\* requests together
MaxTokens == 2

\* the requests in flight (one HeadlessQA instance per request)
Reqs == {"r1", "r2"}

\* chat identifiers and question texts a request may carry
Chats == {"c1", "c2"}

Questions == {"q1"}

\* token texts the completion client may stream, and full completions
Tokens == {<<"a">>, <<"b", "c">>}

Contents == {<<"a">>, <<"b", "c">>}

EmptyText == <<>>

\* models a request may name and the models the user's settings allow:
\* user_settings.get("models", ["gpt-3.5-turbo"])
RequestedModels == {"gpt-4", "gpt-4-32k"}

UserModels == {"gpt-3.5-turbo", "gpt-4"}

VARIABLES
    pc,               \* phase of each request
    mode,             \* "none", "answer" (generate_answer) or "stream" (generate_stream)
    at,               \* where a streaming generator is suspended: "wait" (in aiter) or "yielded"
    chat,             \* chat_id argument of the request
    question,         \* question.question of the request
    run,              \* the background task: "none", "running", "finished"
    llm_calls,        \* completion-client invocations made by the request
    logged,           \* wrap_done logged a caught exception
    produced,         \* what the completion client has produced so far: the tokens
                      \* streamed, or the one content predict_messages returned
    queue,            \* callback.queue
    done,             \* callback.done
    response_tokens,  \* the generator's local list of received tokens
    streamed_chat_history, \* the generator's local GetChatHistoryOutput
    frames,           \* frames yielded to the consumer, in emission order
    result,           \* entry returned by generate_answer
    err,              \* error surfaced to the caller: "none", "completion", "persistence"
    history,          \* the history repository: sequence of entries
    calls,            \* repository write calls made by each request, in order
    clock,            \* the repository's timestamp source
    requested,        \* chat_question.model once the handler has filled the fallback in
    model,            \* the model the answer generator was constructed with
    usage             \* the user's daily request counter

vars == <<pc, mode, at, chat, question, run, llm_calls, logged, produced, queue,
          done, response_tokens, streamed_chat_history, frames, result, err,
          history, calls, clock, requested, model, usage>>

\* the state only the handlers write
handlerVars == <<requested, model, usage>>

NoEntry == [chat_id |-> "none", message_id |-> 0, message_time |-> 0,
            user_message |-> "none", assistant |-> EmptyText]

EntryOrNone(hist, id) ==
    IF \E i \in DOMAIN hist : hist[i].message_id = id
    THEN hist[CHOOSE i \in DOMAIN hist : hist[i].message_id = id]
    ELSE NoEntry

\* "".join(response_tokens)
RECURSIVE SumLen(_, _)
SumLen(f, S) ==
    IF S = {} THEN 0
    ELSE LET x == CHOOSE y \in S : TRUE IN Len(f[x]) + SumLen(f, S \ {x})

RECURSIVE Join(_)
Join(toks) ==
    IF toks = <<>> THEN EmptyText ELSE Head(toks) \o Join(Tail(toks))

\* repository.chat.update_chat_history: insert one entry, the repository
\* assigns message_id and message_time
update_chat_history(hist, chat_id, user_message, assistant) ==
    Append(hist, [chat_id |-> chat_id, message_id |-> Len(hist) + 1,
                  message_time |-> clock, user_message |-> user_message,
                  assistant |-> assistant])

\* update_message_by_id, had it inserted a new entry instead of rewriting
\* the one with that id
update_message_by_id_Inserts(hist, message_id, user_message, assistant) ==
    Append(hist, [chat_id |-> EntryOrNone(hist, message_id).chat_id,
                  message_id |-> Len(hist) + 1,
                  message_time |-> clock, user_message |-> user_message,
                  assistant |-> assistant])

\* update_message_by_id, had it rewritten the most recent entry whatever
\* its id
update_message_by_id_Latest(hist, message_id, user_message, assistant) ==
    [i \in DOMAIN hist |->
        IF i = Len(hist)
        THEN [hist[i] EXCEPT !.user_message = user_message, !.assistant = assistant]
        ELSE hist[i]]

\* repository.chat.update_message_by_id: rewrite the entry with that id
update_message_by_id(hist, message_id, user_message, assistant) ==
    [i \in DOMAIN hist |->
        IF hist[i].message_id = message_id
        THEN [hist[i] EXCEPT !.user_message = user_message, !.assistant = assistant]
        ELSE hist[i]]

CreateCall(assistant, ok) ==
    [op |-> "create", message_id |-> 0, assistant |-> assistant, ok |-> ok]

UpdateCall(message_id, assistant, ok) ==
    [op |-> "update", message_id |-> message_id, assistant |-> assistant, ok |-> ok]

Init ==
    /\ pc = [r \in Reqs |-> "idle"]
    /\ mode = [r \in Reqs |-> "none"]
    /\ at = [r \in Reqs |-> "none"]
    /\ chat = [r \in Reqs |-> "none"]
    /\ question = [r \in Reqs |-> "none"]
    /\ run = [r \in Reqs |-> "none"]
    /\ llm_calls = [r \in Reqs |-> 0]
    /\ logged = [r \in Reqs |-> FALSE]
    /\ produced = [r \in Reqs |-> <<>>]
    /\ queue = [r \in Reqs |-> <<>>]
    /\ done = [r \in Reqs |-> FALSE]
    /\ response_tokens = [r \in Reqs |-> <<>>]
    /\ streamed_chat_history = [r \in Reqs |-> NoEntry]
    /\ frames = [r \in Reqs |-> <<>>]
    /\ result = [r \in Reqs |-> NoEntry]
    /\ err = [r \in Reqs |-> "none"]
    /\ history = <<>>
    /\ calls = [r \in Reqs |-> <<>>]
    /\ clock = 1
    /\ requested = [r \in Reqs |-> "none"]
    /\ model = [r \in Reqs |-> "none"]
    /\ usage = 0

\* ---- generate_answer (synchronous: one step of the event loop) ----

\* generate_answer, had it recorded the question with an empty answer
\* when the completion call raises
generate_answer_RecordsFailure(r, c, q, readOk, raises, completion, writeOk) ==
    /\ pc[r] = "idle"
    /\ mode' = [mode EXCEPT ![r] = "answer"]
    /\ chat' = [chat EXCEPT ![r] = c]
    /\ question' = [question EXCEPT ![r] = q]
    /\ IF ~readOk
       THEN /\ pc' = [pc EXCEPT ![r] = "FAILED"]
            /\ err' = [err EXCEPT ![r] = "persistence"]
            /\ UNCHANGED <<llm_calls, produced, history, calls, clock, result>>
       ELSE /\ llm_calls' = [llm_calls EXCEPT ![r] = @ + 1]
            /\ produced' = [produced EXCEPT ![r] = IF raises THEN @ ELSE <<completion>>]
            /\ LET answer == IF raises THEN EmptyText ELSE completion IN
                /\ calls' = [calls EXCEPT ![r] = Append(@, CreateCall(answer, writeOk))]
                /\ IF ~writeOk
                   THEN /\ pc' = [pc EXCEPT ![r] = "FAILED"]
                        /\ err' = [err EXCEPT ![r] = IF raises THEN "completion" ELSE "persistence"]
                        /\ UNCHANGED <<history, clock, result>>
                   ELSE /\ history' = update_chat_history(history, c, q, answer)
                        /\ clock' = clock + 1
                        /\ IF raises
                           THEN /\ pc' = [pc EXCEPT ![r] = "FAILED"]
                                /\ err' = [err EXCEPT ![r] = "completion"]
                                /\ UNCHANGED result
                           ELSE /\ result' = [result EXCEPT ![r] =
                                       [chat_id |-> c,
                                        message_id |-> history'[Len(history')].message_id,
                                        message_time |-> history'[Len(history')].message_time,
                                        user_message |-> q,
                                        assistant |-> completion]]
                                /\ pc' = [pc EXCEPT ![r] = "RETURNED"]
                                /\ UNCHANGED err
    /\ UNCHANGED <<at, run, logged, queue, done, response_tokens,
                   streamed_chat_history, frames>>

\* readOk: get_chat_history succeeds; raises: predict_messages raises,
\* otherwise it returns completion; writeOk: update_chat_history succeeds
generate_answer(r, c, q, readOk, raises, completion, writeOk) ==
    /\ pc[r] = "idle"
    /\ mode' = [mode EXCEPT ![r] = "answer"]
    /\ chat' = [chat EXCEPT ![r] = c]
    /\ question' = [question EXCEPT ![r] = q]
    /\ IF ~readOk
       THEN /\ pc' = [pc EXCEPT ![r] = "FAILED"]
            /\ err' = [err EXCEPT ![r] = "persistence"]
            /\ UNCHANGED <<llm_calls, produced, history, calls, clock, result>>
       ELSE /\ llm_calls' = [llm_calls EXCEPT ![r] = @ + 1]
            /\ IF raises
               THEN /\ pc' = [pc EXCEPT ![r] = "FAILED"]
                    /\ err' = [err EXCEPT ![r] = "completion"]
                    /\ UNCHANGED <<produced, history, calls, clock, result>>
               ELSE /\ produced' = [produced EXCEPT ![r] = <<completion>>]
                    /\ calls' = [calls EXCEPT ![r] = Append(@, CreateCall(completion, writeOk))]
                    /\ IF ~writeOk
                       THEN /\ pc' = [pc EXCEPT ![r] = "FAILED"]
                            /\ err' = [err EXCEPT ![r] = "persistence"]
                            /\ UNCHANGED <<history, clock, result>>
                       ELSE /\ history' = update_chat_history(history, c, q, completion)
                            /\ clock' = clock + 1
                            /\ result' = [result EXCEPT ![r] =
                                   [chat_id |-> c,
                                    message_id |-> history'[Len(history')].message_id,
                                    message_time |-> history'[Len(history')].message_time,
                                    user_message |-> q,
                                    assistant |-> completion]]
                            /\ pc' = [pc EXCEPT ![r] = "RETURNED"]
                            /\ UNCHANGED err
    /\ UNCHANGED <<at, run, logged, queue, done, response_tokens,
                   streamed_chat_history, frames>>

\* ---- generate_stream ----

\* the handler calls generate_stream: the async generator object exists,
\* none of its body has run
CallGenerateStream(r, c, q) ==
    /\ pc[r] = "idle"
    /\ pc' = [pc EXCEPT ![r] = "BUILDING"]
    /\ mode' = [mode EXCEPT ![r] = "stream"]
    /\ chat' = [chat EXCEPT ![r] = c]
    /\ question' = [question EXCEPT ![r] = q]
    /\ UNCHANGED <<at, run, llm_calls, logged, produced, queue, done,
                   response_tokens, streamed_chat_history, frames, result, err,
                   history, calls, clock>>

\* the first pull, had it left the history entry to be created later
StreamBuild_NoPlaceholder(r, readOk, writeOk) ==
    /\ pc[r] = "BUILDING"
    /\ IF ~readOk
       THEN /\ pc' = [pc EXCEPT ![r] = "FAILED"]
            /\ err' = [err EXCEPT ![r] = "persistence"]
            /\ UNCHANGED <<at, run, llm_calls>>
       ELSE /\ run' = [run EXCEPT ![r] = "running"]
            /\ llm_calls' = [llm_calls EXCEPT ![r] = @ + 1]
            /\ pc' = [pc EXCEPT ![r] = "STREAMING"]
            /\ at' = [at EXCEPT ![r] = "wait"]
            /\ UNCHANGED err
    /\ UNCHANGED <<mode, chat, question, logged, produced, queue, done,
                   response_tokens, frames, result, streamed_chat_history,
                   history, calls, clock>>
    /\ UNCHANGED handlerVars

\* first pull of the generator: everything up to the first suspension in
\* callback.aiter(): history read, create_task(wrap_done(...)), placeholder
\* write, local GetChatHistoryOutput
StreamBuild(r, readOk, writeOk) ==
    /\ pc[r] = "BUILDING"
    /\ IF ~readOk
       THEN /\ pc' = [pc EXCEPT ![r] = "FAILED"]
            /\ err' = [err EXCEPT ![r] = "persistence"]
            /\ UNCHANGED <<at, run, llm_calls, streamed_chat_history, history, calls, clock>>
       ELSE /\ run' = [run EXCEPT ![r] = "running"]
            /\ llm_calls' = [llm_calls EXCEPT ![r] = @ + 1]
            /\ calls' = [calls EXCEPT ![r] = Append(@, CreateCall(EmptyText, writeOk))]
            /\ IF ~writeOk
               THEN /\ pc' = [pc EXCEPT ![r] = "FAILED"]
                    /\ err' = [err EXCEPT ![r] = "persistence"]
                    /\ UNCHANGED <<at, streamed_chat_history, history, clock>>
               ELSE /\ history' = update_chat_history(history, chat[r], question[r], EmptyText)
                    /\ clock' = clock + 1
                    /\ streamed_chat_history' = [streamed_chat_history EXCEPT ![r] =
                           [chat_id |-> chat[r],
                            message_id |-> history'[Len(history')].message_id,
                            message_time |-> history'[Len(history')].message_time,
                            user_message |-> question[r],
                            assistant |-> EmptyText]]
                    /\ pc' = [pc EXCEPT ![r] = "STREAMING"]
                    /\ at' = [at EXCEPT ![r] = "wait"]
                    /\ UNCHANGED err
    /\ UNCHANGED <<mode, chat, question, logged, produced, queue, done,
                   response_tokens, frames, result>>
    /\ UNCHANGED handlerVars

\* the background completion call streams one token into the intermediary
NewToken(r, t) ==
    /\ run[r] = "running"
    /\ SumLen(produced, {s \in Reqs : mode[s] = "stream"}) < MaxTokens
    /\ produced' = [produced EXCEPT ![r] = Append(@, t)]
    /\ queue' = [queue EXCEPT ![r] = Append(@, t)]
    /\ UNCHANGED <<pc, mode, at, chat, question, run, llm_calls, logged, done,
                   response_tokens, streamed_chat_history, frames, result, err,
                   history, calls, clock>>
    /\ UNCHANGED handlerVars

\* wrap_done without its except clause: the exception of the call reaches
\* whoever awaits the task
wrap_done_Propagates(r, raises) ==
    /\ run[r] = "running"
    /\ logged' = [logged EXCEPT ![r] = raises]
    /\ done' = [done EXCEPT ![r] = TRUE]
    /\ run' = [run EXCEPT ![r] = "finished"]
    /\ IF raises /\ pc[r] \in {"STREAMING", "FINALIZING"}
       THEN /\ pc' = [pc EXCEPT ![r] = "FAILED"]
            /\ err' = [err EXCEPT ![r] = "completion"]
            /\ at' = [at EXCEPT ![r] = "none"]
       ELSE UNCHANGED <<pc, err, at>>
    /\ UNCHANGED <<mode, chat, question, llm_calls, produced, queue,
                   response_tokens, streamed_chat_history, frames, result,
                   history, calls, clock>>
    /\ UNCHANGED handlerVars

\* wrap_done without its finally clause: the event is set only when the
\* call returns
wrap_done_NoFinally(r, raises) ==
    /\ run[r] = "running"
    /\ logged' = [logged EXCEPT ![r] = raises]
    /\ done' = [done EXCEPT ![r] = ~raises]
    /\ run' = [run EXCEPT ![r] = "finished"]
    /\ UNCHANGED <<pc, mode, at, chat, question, llm_calls, produced, queue,
                   response_tokens, streamed_chat_history, frames, result, err,
                   history, calls, clock>>
    /\ UNCHANGED handlerVars

\* wrap_done: the awaited call returns (raises = FALSE) or raises
\* (raises = TRUE: caught and logged); finally the event is set
wrap_done(r, raises) ==
    /\ run[r] = "running"
    /\ logged' = [logged EXCEPT ![r] = raises]
    /\ done' = [done EXCEPT ![r] = TRUE]
    /\ run' = [run EXCEPT ![r] = "finished"]
    /\ UNCHANGED <<pc, mode, at, chat, question, llm_calls, produced, queue,
                   response_tokens, streamed_chat_history, frames, result, err,
                   history, calls, clock>>
    /\ UNCHANGED handlerVars

\* the loop body, had it appended the token to the assistant field
TokenFrame_Accumulates(r) ==
    /\ pc[r] = "STREAMING"
    /\ at[r] = "wait"
    /\ queue[r] # <<>>
    /\ LET token == Head(queue[r]) IN
        /\ queue' = [queue EXCEPT ![r] = Tail(@)]
        /\ response_tokens' = [response_tokens EXCEPT ![r] = Append(@, token)]
        /\ streamed_chat_history' = [streamed_chat_history EXCEPT ![r].assistant = @ \o token]
        /\ frames' = [frames EXCEPT ![r] = Append(@, streamed_chat_history'[r])]
    /\ at' = [at EXCEPT ![r] = "yielded"]
    /\ UNCHANGED <<pc, mode, chat, question, run, llm_calls, logged, produced,
                   done, result, err, history, calls, clock>>
    /\ UNCHANGED handlerVars

\* the loop body, had it persisted the text received so far at every token
TokenFrame_Persists(r) ==
    /\ pc[r] = "STREAMING"
    /\ at[r] = "wait"
    /\ queue[r] # <<>>
    /\ LET token == Head(queue[r]) IN
        /\ queue' = [queue EXCEPT ![r] = Tail(@)]
        /\ response_tokens' = [response_tokens EXCEPT ![r] = Append(@, token)]
        /\ streamed_chat_history' = [streamed_chat_history EXCEPT ![r].assistant = token]
        /\ frames' = [frames EXCEPT ![r] = Append(@, streamed_chat_history'[r])]
        /\ calls' = [calls EXCEPT ![r] = Append(@,
               UpdateCall(streamed_chat_history[r].message_id, Join(response_tokens'[r]), TRUE))]
        /\ history' = update_message_by_id(history, streamed_chat_history[r].message_id,
                                           question[r], Join(response_tokens'[r]))
    /\ at' = [at EXCEPT ![r] = "yielded"]
    /\ UNCHANGED <<pc, mode, chat, question, run, llm_calls, logged, produced,
                   done, result, err, clock>>
    /\ UNCHANGED handlerVars

\* the loop body, had it stamped each frame with the current time
TokenFrame_Restamps(r) ==
    /\ pc[r] = "STREAMING"
    /\ at[r] = "wait"
    /\ queue[r] # <<>>
    /\ LET token == Head(queue[r]) IN
        /\ queue' = [queue EXCEPT ![r] = Tail(@)]
        /\ response_tokens' = [response_tokens EXCEPT ![r] = Append(@, token)]
        /\ streamed_chat_history' = [streamed_chat_history EXCEPT
               ![r].assistant = token, ![r].message_time = clock]
        /\ frames' = [frames EXCEPT ![r] = Append(@, streamed_chat_history'[r])]
    /\ at' = [at EXCEPT ![r] = "yielded"]
    /\ UNCHANGED <<pc, mode, chat, question, run, llm_calls, logged, produced,
                   done, result, err, history, calls, clock>>
    /\ UNCHANGED handlerVars

\* one iteration of `async for token in callback.aiter()`: take the next
\* queued token, record it, overwrite the assistant field, yield a frame
TokenFrame(r) ==
    /\ pc[r] = "STREAMING"
    /\ at[r] = "wait"
    /\ queue[r] # <<>>
    /\ LET token == Head(queue[r]) IN
        /\ queue' = [queue EXCEPT ![r] = Tail(@)]
        /\ response_tokens' = [response_tokens EXCEPT ![r] = Append(@, token)]
        /\ streamed_chat_history' = [streamed_chat_history EXCEPT ![r].assistant = token]
        /\ frames' = [frames EXCEPT ![r] = Append(@, streamed_chat_history'[r])]
    /\ at' = [at EXCEPT ![r] = "yielded"]
    /\ UNCHANGED <<pc, mode, chat, question, run, llm_calls, logged, produced,
                   done, result, err, history, calls, clock>>
    /\ UNCHANGED handlerVars

\* the consumer asks for the next frame: the generator resumes after the
\* yield and suspends in callback.aiter() again
Pull(r) ==
    /\ pc[r] = "STREAMING"
    /\ at[r] = "yielded"
    /\ at' = [at EXCEPT ![r] = "wait"]
    /\ UNCHANGED <<pc, mode, chat, question, run, llm_calls, logged, produced,
                   queue, done, response_tokens, streamed_chat_history, frames,
                   result, err, history, calls, clock>>
    /\ UNCHANGED handlerVars

\* callback.aiter() ends: done is set and no token is queued; the
\* generator moves on to `await run`
LoopEnd(r) ==
    /\ pc[r] = "STREAMING"
    /\ at[r] = "wait"
    /\ queue[r] = <<>>
    /\ done[r]
    /\ pc' = [pc EXCEPT ![r] = "FINALIZING"]
    /\ at' = [at EXCEPT ![r] = "none"]
    /\ UNCHANGED <<mode, chat, question, run, llm_calls, logged, produced,
                   queue, done, response_tokens, streamed_chat_history, frames,
                   result, err, history, calls, clock>>
    /\ UNCHANGED handlerVars

\* the finalizing write, had it taken the assistant field of the local
\* entry (the last token) instead of the joined token list
Finalize_LastToken(r, writeOk) ==
    /\ pc[r] = "FINALIZING"
    /\ run[r] = "finished"
    /\ LET assistant == streamed_chat_history[r].assistant
           message_id == streamed_chat_history[r].message_id
       IN /\ calls' = [calls EXCEPT ![r] = Append(@, UpdateCall(message_id, assistant, writeOk))]
          /\ IF writeOk
             THEN /\ history' = update_message_by_id(history, message_id, question[r], assistant)
                  /\ clock' = clock + 1
                  /\ pc' = [pc EXCEPT ![r] = "DONE"]
                  /\ UNCHANGED err
             ELSE /\ pc' = [pc EXCEPT ![r] = "FAILED"]
                  /\ err' = [err EXCEPT ![r] = "persistence"]
                  /\ UNCHANGED <<history, clock>>
    /\ UNCHANGED <<mode, at, chat, question, run, llm_calls, logged, produced,
                   queue, done, response_tokens, streamed_chat_history, frames,
                   result>>
    /\ UNCHANGED handlerVars

\* `await run`, then update_message_by_id with "".join(response_tokens)
Finalize(r, writeOk) ==
    /\ pc[r] = "FINALIZING"
    /\ run[r] = "finished"
    /\ LET assistant == Join(response_tokens[r])
           message_id == streamed_chat_history[r].message_id
       IN /\ calls' = [calls EXCEPT ![r] = Append(@, UpdateCall(message_id, assistant, writeOk))]
          /\ IF writeOk
             THEN /\ history' = update_message_by_id(history, message_id, question[r], assistant)
                  /\ clock' = clock + 1
                  /\ pc' = [pc EXCEPT ![r] = "DONE"]
                  /\ UNCHANGED err
             ELSE /\ pc' = [pc EXCEPT ![r] = "FAILED"]
                  /\ err' = [err EXCEPT ![r] = "persistence"]
                  /\ UNCHANGED <<history, clock>>
    /\ UNCHANGED <<mode, at, chat, question, run, llm_calls, logged, produced,
                   queue, done, response_tokens, streamed_chat_history, frames,
                   result>>
    /\ UNCHANGED handlerVars

\* the close of the generator, had it cancelled the background task
Disconnect_Cancels(r) ==
    /\ pc[r] \in {"BUILDING", "STREAMING"}
    /\ pc' = [pc EXCEPT ![r] = "CLOSED"]
    /\ at' = [at EXCEPT ![r] = "none"]
    /\ run' = [run EXCEPT ![r] = IF @ = "running" THEN "finished" ELSE @]
    /\ UNCHANGED <<mode, chat, question, llm_calls, logged, produced,
                   queue, done, response_tokens, streamed_chat_history, frames,
                   result, err, history, calls, clock>>
    /\ UNCHANGED handlerVars

\* the consumer goes away: the generator is closed where it is suspended
\* and nothing after that point of its body runs
Disconnect(r) ==
    /\ pc[r] \in {"BUILDING", "STREAMING"}
    /\ pc' = [pc EXCEPT ![r] = "CLOSED"]
    /\ at' = [at EXCEPT ![r] = "none"]
    /\ UNCHANGED <<mode, chat, question, run, llm_calls, logged, produced,
                   queue, done, response_tokens, streamed_chat_history, frames,
                   result, err, history, calls, clock>>
    /\ UNCHANGED handlerVars

\* ---- the handlers ----

\* chat_question.model or fallback_model, no brain given
model_or_fallback(m) == IF m = "" THEN "gpt-3.5-turbo" ELSE m

\* the model argument, had the handler passed the named model on unchecked
model_to_use_Unchecked(m, models) == m

\* chat_question.model if is_model_ok else "gpt-3.5-turbo"
model_to_use(m, models) == IF m \in models THEN m ELSE "gpt-3.5-turbo"

\* validate_authorization raised: the request is over, nothing else ran
Rejected(r) ==
    /\ pc' = [pc EXCEPT ![r] = "FAILED"]
    /\ err' = [err EXCEPT ![r] = "authorization"]
    /\ UNCHANGED <<mode, at, chat, question, run, llm_calls, logged, produced,
                   queue, done, response_tokens, streamed_chat_history, frames,
                   result, history, calls, clock, requested, model, usage>>

\* the question handler, had it counted the request before checking the
\* authorization
create_question_handler_CountsFirst(r, c, q, authorized, m, readOk, raises, completion, writeOk) ==
    /\ pc[r] = "idle"
    /\ IF ~authorized
       THEN /\ pc' = [pc EXCEPT ![r] = "FAILED"]
            /\ err' = [err EXCEPT ![r] = "authorization"]
            /\ usage' = usage + 1
            /\ UNCHANGED <<mode, at, chat, question, run, llm_calls, logged, produced,
                           queue, done, response_tokens, streamed_chat_history, frames,
                           result, history, calls, clock, requested, model>>
       ELSE /\ requested' = [requested EXCEPT ![r] = model_or_fallback(m)]
            /\ usage' = usage + 1
            /\ model' = [model EXCEPT ![r] = model_to_use(model_or_fallback(m), UserModels)]
            /\ generate_answer(r, c, q, readOk, raises, completion, writeOk)

\* create_question_handler: authorization, fallback model,
\* check_user_requests_limit, get_answer_generator, generate_answer; the
\* handler never awaits, it is one step of the event loop
create_question_handler(r, c, q, authorized, m, readOk, raises, completion, writeOk) ==
    /\ pc[r] = "idle"
    /\ IF ~authorized
       THEN Rejected(r)
       ELSE /\ requested' = [requested EXCEPT ![r] = model_or_fallback(m)]
            /\ usage' = usage + 1
            /\ model' = [model EXCEPT ![r] = model_to_use(model_or_fallback(m), UserModels)]
            /\ generate_answer(r, c, q, readOk, raises, completion, writeOk)

\* create_stream_question_handler: authorization, fallback model,
\* get_answer_generator, StreamingResponse(generate_stream(...)); the
\* request counter is not touched
create_stream_question_handler(r, c, q, authorized, m) ==
    /\ pc[r] = "idle"
    /\ IF ~authorized
       THEN Rejected(r)
       ELSE /\ requested' = [requested EXCEPT ![r] = model_or_fallback(m)]
            /\ model' = [model EXCEPT ![r] = model_to_use(model_or_fallback(m), UserModels)]
            /\ UNCHANGED usage
            /\ CallGenerateStream(r, c, q)

Next ==
    \/ \E r \in Reqs, c \in Chats, q \in Questions, authorized \in BOOLEAN,
          m \in RequestedModels, readOk \in BOOLEAN, raises \in BOOLEAN,
          completion \in Contents, writeOk \in BOOLEAN :
            create_question_handler(r, c, q, authorized, m, readOk, raises, completion, writeOk)
    \/ \E r \in Reqs, c \in Chats, q \in Questions, authorized \in BOOLEAN,
          m \in RequestedModels :
            create_stream_question_handler(r, c, q, authorized, m)
    \/ \E r \in Reqs, readOk \in BOOLEAN, writeOk \in BOOLEAN : StreamBuild(r, readOk, writeOk)
    \/ \E r \in Reqs, t \in Tokens : NewToken(r, t)
    \/ \E r \in Reqs, raises \in BOOLEAN : wrap_done(r, raises)
    \/ \E r \in Reqs : TokenFrame(r)
    \/ \E r \in Reqs : Pull(r)
    \/ \E r \in Reqs : LoopEnd(r)
    \/ \E r \in Reqs, writeOk \in BOOLEAN : Finalize(r, writeOk)
    \/ \E r \in Reqs : Disconnect(r)

Spec == Init /\ [][Next]_vars

\* the consumer keeps pulling until the stream ends: no Disconnect; the
\* requests name one model, which plays no part in how a stream proceeds
NextPulling ==
    \/ \E r \in Reqs, c \in Chats, q \in Questions, authorized \in BOOLEAN,
          m \in {"gpt-4"}, readOk \in BOOLEAN, raises \in BOOLEAN,
          completion \in Contents, writeOk \in BOOLEAN :
            create_question_handler(r, c, q, authorized, m, readOk, raises, completion, writeOk)
    \/ \E r \in Reqs, c \in Chats, q \in Questions, authorized \in BOOLEAN,
          m \in {"gpt-4"} :
            create_stream_question_handler(r, c, q, authorized, m)
    \/ \E r \in Reqs, readOk \in BOOLEAN, writeOk \in BOOLEAN : StreamBuild(r, readOk, writeOk)
    \/ \E r \in Reqs, t \in Tokens : NewToken(r, t)
    \/ \E r \in Reqs, raises \in BOOLEAN : wrap_done(r, raises)
    \/ \E r \in Reqs : TokenFrame(r)
    \/ \E r \in Reqs : Pull(r)
    \/ \E r \in Reqs : LoopEnd(r)
    \/ \E r \in Reqs, writeOk \in BOOLEAN : Finalize(r, writeOk)

\* a step of the generator of request r: the consumer's pull resumes it, or
\* the event loop resumes it from callback.aiter() or from `await run`
GeneratorStep(r) ==
    \/ \E readOk \in BOOLEAN, writeOk \in BOOLEAN : StreamBuild(r, readOk, writeOk)
    \/ TokenFrame(r)
    \/ Pull(r)
    \/ LoopEnd(r)
    \/ \E writeOk \in BOOLEAN : Finalize(r, writeOk)

\* the event loop runs every task that is ready, the completion call
\* ends (returns or raises), and the consumer pulls every frame
Fairness ==
    \A r \in Reqs :
        /\ WF_vars(GeneratorStep(r))
        /\ WF_vars(\E raises \in BOOLEAN : wrap_done(r, raises))

LiveSpec == Init /\ [][NextPulling]_vars /\ Fairness


\* ---- vocabulary of the properties ----

Streams(r) == mode[r] = "stream"

Answers(r) == mode[r] = "answer"

\* the placeholder write of a streaming request returned its entry
HasPlaceholder(r) == Streams(r) /\ streamed_chat_history[r].message_id # 0

\* write calls of request r that are update_message_by_id calls
UpdateCalls(r) == {i \in DOMAIN calls[r] : calls[r][i].op = "update"}

CreateCalls(r) == {i \in DOMAIN calls[r] : calls[r][i].op = "create"}

\* the finalizing write was attempted
Finalized(r) == UpdateCalls(r) # {}

\* the request is over: nothing of it will run again
Ended(r) == pc[r] \in {"DONE", "FAILED", "CLOSED", "RETURNED"}

\* entries of the repository that belong to chat c
EntriesOfChat(c) == {i \in DOMAIN history : history[i].chat_id = c}

\* the assistant fields of the frames emitted so far, in emission order
FrameTokens(r) == [i \in DOMAIN frames[r] |-> frames[r][i].assistant]

\* the repository entry with that message id
EntryById(id) == EntryOrNone(history, id)

\* ---- C1 ----
\* C1 as stated: every question that was asked of a generator and whose request is over
\* without a repository failure and without the consumer going away has
\* created exactly one history entry, however its completion call ended.
C1_AsStated ==
    \A r \in Reqs :
        (mode[r] # "none" /\ Ended(r) /\ err[r] # "persistence" /\ pc[r] # "CLOSED")
            => Cardinality({i \in CreateCalls(r) : calls[r][i].ok}) = 1

\* C1 amended: a question creates at most one entry; the entries of a chat
\* are exactly those of the questions on it that reached a successful
\* history creation (a stream whose placeholder write returned, however the
\* completion call ends; an answer that was returned); a generate_answer
\* whose completion call raised has created none.
T1_OneEntryPerWrittenQuestion ==
    /\ \A r \in Reqs : Cardinality(CreateCalls(r)) <= 1
    /\ \A c \in Chats :
          Cardinality(EntriesOfChat(c)) =
          Cardinality({r \in Reqs : chat[r] = c /\ (HasPlaceholder(r) \/ pc[r] = "RETURNED")})
    /\ \A r \in Reqs : (Answers(r) /\ err[r] = "completion") => calls[r] = <<>>

\* both requests asked on the same chat, one streamed to its end after a
\* raising completion call, the other answered: two entries in that chat
W1_TwoQuestionsOneChat ==
    \E r, s \in Reqs :
        /\ r # s /\ chat[r] = chat[s]
        /\ pc[r] = "DONE" /\ logged[r]
        /\ pc[s] = "RETURNED"
        /\ Cardinality(EntriesOfChat(chat[r])) = 2

\* ---- C2 ----
\* C2: when a stream has run to its end, exactly one finalizing update was
\* made, addressed to the placeholder's message id, and its assistant text
\* is the concatenation, in emission order, of the tokens emitted as
\* frames; the stored entry holds that text.
T2_FinalTextIsConcatenation ==
    \A r \in Reqs :
        pc[r] = "DONE" =>
            /\ Cardinality(UpdateCalls(r)) = 1
            /\ LET u == calls[r][Len(calls[r])] IN
                /\ u.op = "update"
                /\ \A i \in DOMAIN frames[r] : frames[r][i].message_id = u.message_id
                /\ u.message_id = streamed_chat_history[r].message_id
                /\ u.assistant = Join(FrameTokens(r))
                /\ EntryById(u.message_id).assistant = Join(FrameTokens(r))

\* a finished stream of two frames: the concatenation is not the last token
W2_DoneWithTwoFrames ==
    \E r \in Reqs :
        /\ pc[r] = "DONE"
        /\ Len(frames[r]) = 2
        /\ Join(FrameTokens(r)) # frames[r][2].assistant

\* ---- C3 ----
Rank(p) ==
    CASE p = "idle" -> 0
      [] p = "BUILDING" -> 1
      [] p = "STREAMING" -> 2
      [] p = "FINALIZING" -> 3
      [] p = "DONE" -> 4
      [] OTHER -> 5

\* C3: a step that emits a frame finds the placeholder (empty assistant
\* text) already written; a step that makes the finalizing write finds the
\* background task finished and no token left to emit, and no frame is
\* emitted afterwards; a streaming request's phase only moves one phase
\* forward (BUILDING, STREAMING, FINALIZING, DONE) or leaves the sequence
\* through a failure or a close.
T3_WriteOrderAndPhases ==
    [][\A r \in Reqs : Streams(r) =>
          /\ frames'[r] # frames[r] =>
                /\ HasPlaceholder(r)
                /\ calls[r] = <<CreateCall(EmptyText, TRUE)>>
                /\ pc[r] = "STREAMING" /\ pc'[r] = "STREAMING"
          /\ (Finalized(r)' /\ ~Finalized(r)) =>
                /\ run[r] = "finished"
                /\ pc[r] = "FINALIZING"
                /\ queue[r] = <<>>
                /\ frames'[r] = frames[r]
          /\ Finalized(r) => frames'[r] = frames[r]
          /\ pc'[r] # pc[r] =>
                \/ Rank(pc'[r]) = Rank(pc[r]) + 1 /\ Rank(pc'[r]) <= 4
                \/ pc'[r] \in {"FAILED", "CLOSED"} /\ Rank(pc[r]) <= 3
      ]_vars

\* a stream that emitted frames and then made its finalizing write
W3_FramesThenFinalized ==
    \E r \in Reqs : pc[r] = "DONE" /\ Len(frames[r]) >= 1 /\ Finalized(r)

\* ---- C4 ----
\* the loop over callback.aiter() has ended
LoopEnded(r) == Streams(r) /\ (pc[r] \in {"FINALIZING", "DONE"} \/ Finalized(r))

\* C4: the i-th frame's assistant field is the i-th token the completion
\* client produced (one frame per token, same order, the token itself and
\* not the text so far); every produced token is either emitted or still
\* queued; and the stream has ended only with the done signal set, the
\* queue empty and every produced token emitted.
T4_FramesAreTokensInOrder ==
    \A r \in Reqs : Streams(r) =>
        /\ Len(frames[r]) <= Len(produced[r])
        /\ \A i \in DOMAIN frames[r] : frames[r][i].assistant = produced[r][i]
        /\ HasPlaceholder(r) => produced[r] = FrameTokens(r) \o queue[r]
        /\ LoopEnded(r) =>
              /\ done[r]
              /\ queue[r] = <<>>
              /\ FrameTokens(r) = produced[r]

\* a stream ended after two different tokens were produced and emitted
W4_TwoTokensEmittedInOrder ==
    \E r \in Reqs :
        /\ LoopEnded(r)
        /\ Len(frames[r]) = 2
        /\ produced[r][1] # produced[r][2]
        /\ frames[r][2].assistant # produced[r][1] \o produced[r][2]

\* ---- C5 ----
\* C5: once the background completion call has raised, after producing k
\* tokens, the error never surfaces to the consumer, the stream that has
\* ended has yielded exactly those k frames, every finalizing update
\* carries the text of those k tokens, and a finished request's entry holds
\* it; and a request that is streaming when the call raises goes on to
\* make the finalizing update with those k tokens after k frames.
T5_RaiseEndsStreamWithPartialText ==
    \A r \in Reqs :
        /\ [](logged[r] =>
                /\ err[r] # "completion"
                /\ LoopEnded(r) => Len(frames[r]) = Len(produced[r])
                /\ \A i \in UpdateCalls(r) : calls[r][i].assistant = Join(produced[r])
                /\ pc[r] = "DONE" =>
                      EntryById(streamed_chat_history[r].message_id).assistant
                          = Join(produced[r]))
        /\ (logged[r] /\ HasPlaceholder(r))
              ~> (/\ Finalized(r)
                  /\ FrameTokens(r) = produced[r]
                  /\ calls[r][Len(calls[r])].assistant = Join(produced[r]))

\* the call raised after two tokens; two frames, then the entry finalized
\* with the two tokens
W5_RaisedAfterTwoTokens ==
    \E r \in Reqs :
        /\ logged[r]
        /\ Len(produced[r]) = 2
        /\ Len(frames[r]) = 2
        /\ pc[r] = "DONE"
        /\ EntryById(streamed_chat_history[r].message_id).assistant = Join(produced[r])

\* ---- C6 ----
\* C6 as stated: no streaming request that created its placeholder entry
\* is over without a finalizing write having been attempted.
C6_NoOrphanedPlaceholder ==
    \A r \in Reqs : (HasPlaceholder(r) /\ Ended(r)) => Finalized(r)

\* ---- C7 ----
\* C7: once the background task is launched the done signal is eventually
\* set, whether the call returns or raises; with fair scheduling and a
\* consumer that keeps pulling, a streaming request eventually leaves the
\* token loop and makes its finalizing write.
T7_DoneEventuallySet ==
    \A r \in Reqs :
        /\ (run[r] = "running") ~> done[r]
        /\ (pc[r] = "STREAMING") ~> (LoopEnded(r) /\ Finalized(r))

\* one call raised, the other returned, both requests were finalized
W7_RaisedAndReturnedBothFinalized ==
    \E r, s \in Reqs :
        /\ logged[r] /\ done[r] /\ Finalized(r)
        /\ Streams(s) /\ ~logged[s] /\ done[s] /\ Finalized(s)

\* ---- C8 ----
\* the entry a request created
EntryOf(r) ==
    EntryById(IF Streams(r) THEN streamed_chat_history[r].message_id
              ELSE result[r].message_id)

\* C8: a streaming request makes at most two writes, the creation with
\* empty assistant text and then one update; a non-streaming request makes
\* at most one write and exactly one, a creation, when it returns; once a
\* request is DONE (or has returned) it makes no further write and its
\* entry never changes again.
T8_WritesPerEntry ==
    [][\A r \in Reqs :
          /\ Streams(r)' =>
                /\ Len(calls'[r]) <= 2
                /\ Len(calls'[r]) >= 1 => calls'[r][1] = CreateCall(EmptyText, calls'[r][1].ok)
                /\ Len(calls'[r]) = 2 =>
                      /\ calls'[r][2].op = "update"
                      /\ calls'[r][1].ok
                      /\ calls'[r][2].message_id = streamed_chat_history'[r].message_id
          /\ Answers(r)' =>
                /\ Len(calls'[r]) <= 1
                /\ pc'[r] = "RETURNED" => (Len(calls'[r]) = 1 /\ calls'[r][1].op = "create")
          /\ pc[r] \in {"DONE", "RETURNED"} =>
                /\ calls'[r] = calls[r]
                /\ EntryOf(r)' = EntryOf(r)
      ]_vars

\* a finished stream (two writes, non-empty final text) next to a returned
\* answer (one write) and a second finished stream in the same repository
W8_TwoWritesAndOneWrite ==
    \E r, s \in Reqs :
        /\ r # s
        /\ pc[r] = "DONE" /\ Len(calls[r]) = 2 /\ EntryOf(r).assistant # EmptyText
        /\ pc[s] = "RETURNED" /\ Len(calls[s]) = 1
        /\ EntryOf(r).message_id < EntryOf(s).message_id

\* ---- C9 ----
\* C9: of two streaming requests on different chats, each has its own
\* message id, its entry belongs to its own chat and holds the empty
\* placeholder text until its own finalizing update and only the text of
\* its own tokens afterwards, and every update it makes is addressed to its
\* own message id and carries its own tokens.
T9_WriteIsolation ==
    \A r, s \in Reqs :
        (r # s /\ Streams(r) /\ Streams(s) /\ chat[r] # chat[s]) =>
            /\ (HasPlaceholder(r) /\ HasPlaceholder(s)) =>
                  streamed_chat_history[r].message_id # streamed_chat_history[s].message_id
            /\ HasPlaceholder(r) =>
                  LET e == EntryById(streamed_chat_history[r].message_id) IN
                    /\ e.chat_id = chat[r]
                    /\ e.chat_id # chat[s]
                    /\ e.assistant = IF pc[r] = "DONE" THEN Join(produced[r]) ELSE EmptyText
            /\ \A i \in UpdateCalls(r) :
                  /\ calls[r][i].message_id = streamed_chat_history[r].message_id
                  /\ calls[r][i].assistant = Join(produced[r])

\* two streams on different chats, both finalized, with different texts
W9_TwoChatsBothFinalized ==
    \E r, s \in Reqs :
        /\ r # s /\ chat[r] # chat[s]
        /\ pc[r] = "DONE" /\ pc[s] = "DONE"
        /\ produced[r] # <<>> /\ produced[s] # <<>>
        /\ Join(produced[r]) # Join(produced[s])

\* ---- C10 ----
\* C10: a generate_answer step whose completion call raises fails with
\* that error after a single completion call, makes no history write and
\* leaves the repository as it was; a step whose completion call returns
\* makes exactly one history write, a creation carrying the returned
\* content as assistant text, and when it returns an entry, the entry and
\* the stored record carry that same text.
T10_AnswerErrorLeavesHistory ==
    [][\A r \in Reqs :
          (pc[r] = "idle" /\ Answers(r)') =>
              /\ err'[r] = "completion" =>
                    /\ pc'[r] = "FAILED"
                    /\ llm_calls'[r] = 1
                    /\ calls'[r] = <<>>
                    /\ history' = history
                    /\ result'[r] = NoEntry
              /\ produced'[r] # <<>> =>
                    /\ llm_calls'[r] = 1
                    /\ Len(calls'[r]) = 1
                    /\ calls'[r][1].op = "create"
                    /\ calls'[r][1].assistant = produced'[r][1]
              /\ pc'[r] = "RETURNED" =>
                    /\ err'[r] = "none"
                    /\ result'[r].assistant = produced'[r][1]
                    /\ Len(history') = Len(history) + 1
                    /\ history'[Len(history')].assistant = produced'[r][1]
                    /\ history'[Len(history')].message_id = result'[r].message_id
                    /\ \A i \in DOMAIN history : history'[i] = history[i]
      ]_vars

\* one answer failed on its completion call and wrote nothing, the other
\* returned the completion's content
W10_OneRaisedOneReturned ==
    \E r, s \in Reqs :
        /\ Answers(r) /\ err[r] = "completion" /\ calls[r] = <<>>
        /\ Answers(s) /\ pc[s] = "RETURNED" /\ result[s].assistant = produced[s][1]
        /\ Len(history) = 1

\* ---- C11 ----
\* the handler got past the authorization and filled the model in
Handled(r) == requested[r] # "none"

\* C11 as stated: a request that names a model the user's settings do not
\* allow (and that meets no repository or completion failure) is answered
\* with a validation error and no answer generator is invoked for it.
C11_UnsupportedModelRejected ==
    \A r \in Reqs :
        (Handled(r) /\ requested[r] \notin UserModels
                    /\ err[r] \notin {"persistence", "completion"})
            => (err[r] = "validation" /\ mode[r] = "none")

\* C11 amended: neither handler answers a request with a validation
\* error on account of its model; an authorized request always has its
\* answer generator constructed and invoked, with the named model when the
\* user's settings allow it and with "gpt-3.5-turbo" in its place when they
\* do not.
T11_UnsupportedModelReplaced ==
    \A r \in Reqs :
        Handled(r) =>
            /\ err[r] # "validation"
            /\ mode[r] \in {"answer", "stream"}
            /\ pc[r] # "idle"
            /\ model[r] = IF requested[r] \in UserModels
                          THEN requested[r] ELSE "gpt-3.5-turbo"

\* an unsupported model named to both handlers: an answer was returned and
\* a stream ran to its end, both generated with the default model
W11_UnsupportedModelServed ==
    \E r, s \in Reqs :
        /\ requested[r] = "gpt-4-32k" /\ model[r] = "gpt-3.5-turbo" /\ pc[r] = "RETURNED"
        /\ requested[s] = "gpt-4-32k" /\ model[s] = "gpt-3.5-turbo" /\ pc[s] = "DONE"

\* ---- C12 ----
\* C12: the step in which a request fails its authorization changes
\* nothing but the request's outcome: the request counter, the
\* repository and every generator, task and completion call are as they
\* were; and a request that failed its authorization never has a
\* generator, a completion call, a background task or a history write.
T12_AuthorizationBeforeSideEffects ==
    [][\A r \in Reqs :
          /\ (err'[r] = "authorization" /\ err[r] # "authorization") =>
                /\ pc[r] = "idle"
                /\ usage' = usage
                /\ history' = history
                /\ <<mode, llm_calls, run, calls, model, requested, produced>>'
                      = <<mode, llm_calls, run, calls, model, requested, produced>>
          /\ err[r] = "authorization" =>
                /\ pc'[r] = "FAILED" /\ err'[r] = "authorization"
                /\ mode'[r] = "none"
                /\ llm_calls'[r] = 0
                /\ run'[r] = "none"
                /\ calls'[r] = <<>>
      ]_vars

\* one request failed its authorization, the other was answered: the
\* counter counted one request and the repository holds one entry
W12_OneRejectedOneAnswered ==
    \E r, s \in Reqs :
        /\ err[r] = "authorization" /\ mode[r] = "none"
        /\ pc[s] = "RETURNED"
        /\ usage = 1
        /\ Len(history) = 1

\* ---- C13 ----
\* C13: a frame is emitted only to a consumer that has pulled; once the
\* consumer has gone away and the generator is closed, the request emits no
\* further frame and makes no further write; closing the generator leaves
\* the background task as it is, and afterwards the task changes only by
\* ending on its own (the call returns or raises), with whatever it
\* produced left unread in the queue.
T13_DisconnectLeavesTaskRunning ==
    [][\A r \in Reqs :
          /\ frames'[r] # frames[r] => at[r] = "wait"
          /\ (pc'[r] = "CLOSED" /\ pc[r] # "CLOSED") =>
                /\ run'[r] = run[r]
                /\ done'[r] = done[r]
                /\ queue'[r] = queue[r]
          /\ pc[r] = "CLOSED" =>
                /\ pc'[r] = "CLOSED"
                /\ frames'[r] = frames[r]
                /\ calls'[r] = calls[r]
                /\ response_tokens'[r] = response_tokens[r]
                /\ EntryOf(r)' = EntryOf(r)
                /\ Len(queue'[r]) >= Len(queue[r])
                /\ run'[r] # run[r] =>
                      (run[r] = "running" /\ run'[r] = "finished" /\ done'[r])
      ]_vars

\* the consumer left after one frame; the task went on, produced another
\* token and ended; that token was never emitted and the entry still holds
\* the placeholder text
W13_ClosedMidStreamTaskEnded ==
    \E r \in Reqs :
        /\ pc[r] = "CLOSED"
        /\ Len(frames[r]) = 1
        /\ Len(produced[r]) = 2
        /\ queue[r] # <<>>
        /\ run[r] = "finished"
        /\ EntryOf(r).assistant = EmptyText

\* ---- C14 ----
\* C14: every frame of a request carries the request's chat and question
\* and the message id and message time of the entry the placeholder write
\* created for it; two frames of one request differ in the assistant field
\* only.
T14_FramesShareIdAndTime ==
    \A r \in Reqs :
        \A i \in DOMAIN frames[r] :
            LET f == frames[r][i]
                e == EntryById(f.message_id)
            IN /\ f.message_id # 0
               /\ e.message_id = f.message_id
               /\ e.message_time = f.message_time
               /\ e.chat_id = chat[r] /\ f.chat_id = chat[r]
               /\ f.user_message = question[r]
               /\ \A j \in DOMAIN frames[r] :
                     [frames[r][j] EXCEPT !.assistant = EmptyText]
                         = [f EXCEPT !.assistant = EmptyText]

\* two frames with different tokens, emitted after another request wrote
\* to the repository and moved its clock on
W14_TwoFramesAfterOtherWrite ==
    \E r \in Reqs :
        /\ Len(frames[r]) = 2
        /\ frames[r][1].assistant # frames[r][2].assistant
        /\ pc[r] = "STREAMING"
        /\ clock > frames[r][1].message_time + 1
        /\ Len(history) = 2
====
